---- MODULE Spec2Model ----
(***************************************************************************)
(* Model of src/ddl_enriched.py: the Avro schema walker, array discovery,  *)
(* table partitioner, relationship resolver and DDL emitter, driven by the *)
(* session state (selected_arrays, first_load) that the script keeps       *)
(* between runs.                                                           *)
(*                                                                         *)
(* Python strings that the code inspects (field paths, column and table    *)
(* names) are sequences of one-character strings, so that startswith,      *)
(* replace, split and the regular expressions of get_column_name are       *)
(* computed character by character.  Type tags, Hive types, documentation  *)
(* and radio labels are only compared for equality and stay TLA+ strings.  *)
(***************************************************************************)
EXTENDS Integers, Sequences, FiniteSets, TLC

(***************************************************************************)
(* Characters and Python string operations.                                *)
(***************************************************************************)
LowerChars == <<"a","b","c","d","e","f","g","h","i","j","k","l","m",
                "n","o","p","q","r","s","t","u","v","w","x","y","z">>
UpperChars == <<"A","B","C","D","E","F","G","H","I","J","K","L","M",
                "N","O","P","Q","R","S","T","U","V","W","X","Y","Z">>
DigitChars == <<"0","1","2","3","4","5","6","7","8","9">>

Range(s) == {s[i] : i \in 1..Len(s)}

LowerSet == Range(LowerChars)
UpperSet == Range(UpperChars)
DigitSet == Range(DigitChars)
\* The lower-case letter of each upper-case letter.
LowerOf == [c \in UpperSet |-> LowerChars[CHOOSE i \in 1..Len(UpperChars) : UpperChars[i] = c]]

\* Python's None where the code holds a path or nothing (no path is empty).
None == << >>

\* The literals "[].item", "." and "[]" of the source.
ItemMarker == <<"[","]",".","i","t","e","m">>
Dot == <<".">>
ArraySuffix == <<"[","]">>

\* str.startswith
StartsWith(s, p) == Len(p) <= Len(s) /\ \A k \in 1..Len(p) : s[k] = p[k]

\* x in list
InList(x, list) == \E i \in 1..Len(list) : list[i] = x

\* The least member of a non-empty set of positions.
Least(S) == CHOOSE p \in S : \A q \in S : p <= q

\* s[p..] starts with pat
MatchAt(s, p, pat) ==
  /\ p + Len(pat) - 1 <= Len(s)
  /\ \A k \in 1..Len(pat) : s[p + k - 1] = pat[k]

\* str.replace(old, ""): every non-overlapping occurrence, left to right (the
\* leftmost occurrence is removed, then the search goes on behind it).
RECURSIVE StrRemove(_, _)
StrRemove(s, old) ==
  LET at == {p \in 1..Len(s) : old # << >> /\ MatchAt(s, p, old)}
  IN IF at = {} THEN s
     ELSE SubSeq(s, 1, Least(at) - 1)
          \o StrRemove(SubSeq(s, Least(at) + Len(old), Len(s)), old)

\* str.split('.')
RECURSIVE StrSplit(_)
StrSplit(s) ==
  LET dots == {p \in 1..Len(s) : s[p] = "."}
  IN IF dots = {} THEN <<s>>
     ELSE <<SubSeq(s, 1, Least(dots) - 1)>> \o StrSplit(SubSeq(s, Least(dots) + 1, Len(s)))

\* '.'.join(parts)
RECURSIVE StrJoin(_)
StrJoin(parts) ==
  IF parts = << >> THEN << >>
  ELSE IF Len(parts) = 1 THEN parts[1]
       ELSE parts[1] \o Dot \o StrJoin(Tail(parts))

\* str.lower(), one character
LowerChar(c) == IF c \in UpperSet THEN LowerOf[c] ELSE c

\* re.sub(r'\[\].item', '', s): "." matches any character; leftmost match
\* first, then the search goes on behind it.
RECURSIVE StripArrayNotation(_)
StripArrayNotation(s) ==
  LET at == {p \in 1..(Len(s) - 6) :
               /\ s[p] = "[" /\ s[p + 1] = "]"
               /\ s[p + 3] = "i" /\ s[p + 4] = "t" /\ s[p + 5] = "e" /\ s[p + 6] = "m"}
  IN IF at = {} THEN s
     ELSE SubSeq(s, 1, Least(at) - 1)
          \o StripArrayNotation(SubSeq(s, Least(at) + 7, Len(s)))

\* re.sub(r'([a-z0-9])([A-Z])', r'\1_\2', s)
RECURSIVE CamelToSnake(_)
CamelToSnake(s) ==
  LET at == {p \in 1..(Len(s) - 1) :
               (s[p] \in LowerSet \/ s[p] \in DigitSet) /\ s[p + 1] \in UpperSet}
  IN IF at = {} THEN s
     ELSE SubSeq(s, 1, Least(at)) \o <<"_", s[Least(at) + 1]>>
          \o CamelToSnake(SubSeq(s, Least(at) + 2, Len(s)))

\* str.lower()
StrLower(s) == [i \in 1..Len(s) |-> LowerChar(s[i])]

\* str.replace('.', '_')
DotsToUnderscores(s) == [i \in 1..Len(s) |-> IF s[i] = "." THEN "_" ELSE s[i]]

\* re.sub(r'[^a-z0-9_]', '', s)
IdentChars == LowerSet \cup DigitSet \cup {"_"}
StripSpecial(s) == SelectSeq(s, LAMBDA c : c \in IdentChars)

get_column_name(field_path) ==
  StripSpecial(DotsToUnderscores(StrLower(CamelToSnake(StripArrayNotation(field_path)))))

(***************************************************************************)
(* AVRO_TO_HIVE_TYPE and avro_to_hive_type.                                *)
(***************************************************************************)
HiveTypeTable ==
  [string |-> "VARCHAR(255)", int |-> "INT", long |-> "BIGINT", float |-> "FLOAT",
   double |-> "DOUBLE", boolean |-> "BOOLEAN", bytes |-> "BINARY", null |-> "NULL",
   date |-> "DATE", enum |-> "VARCHAR(100)"]
   @@ ("timestamp-millis" :> "TIMESTAMP") @@ ("time-millis" :> "VARCHAR(30)")

\* dict.get(key, 'STRING')
HiveTypeGet(key) == IF key \in DOMAIN HiveTypeTable THEN HiveTypeTable[key] ELSE "STRING"

\* The generic foreign-key type of the fallback branches.
GenericKeyType == "VARCHAR(255)"

(***************************************************************************)
(* Parsed Avro schemas (avro.schema objects), by node kind.                *)
(***************************************************************************)
Primitive(t) == [type |-> t, logical_type |-> ""]
Logical(t, lt) == [type |-> t, logical_type |-> lt]
Enum(symbols) == [type |-> "enum", symbols |-> symbols]
Array(items) == [type |-> "array", items |-> items]
Union(schemas) == [type |-> "union", schemas |-> schemas]
Record(name, fields) == [type |-> "record", name |-> name, fields |-> fields]
Field(name, type, doc) == [name |-> name, type |-> type, doc |-> doc]

\* The schemas the caller uploads.  The session keeps selected_arrays over an
\* upload, so a path selected in one schema is read against the next: the
\* field at the top is named items in each of them, and what lies under it
\* differs (an array of records with or without scalars, nested arrays, a
\* record with an array, a record where the others have an array).
\* Order{order_id: string, items: array<Item{sku: string, qty: int}>}
OrderSchema ==
  Record(<<"O","r","d","e","r">>,
    << Field(<<"o","r","d","e","r","_","i","d">>, Primitive("string"), ""),
       Field(<<"i","t","e","m","s">>,
             Array(Record(<<"I","t","e","m">>,
               << Field(<<"s","k","u">>, Primitive("string"), ""),
                  Field(<<"q","t","y">>, Primitive("int"), "") >>)), "") >>)

\* Nest{k: string, items: array<A{x: int, b: array<B{y: [null,long], c: array<C{z: string}>}>}>}
NestSchema ==
  Record(<<"N","e","s","t">>,
    << Field(<<"k">>, Primitive("string"), "key"),
       Field(<<"i","t","e","m","s">>,
             Array(Record(<<"A">>,
               << Field(<<"x">>, Primitive("int"), ""),
                  Field(<<"b">>,
                        Array(Record(<<"B">>,
                          << Field(<<"y">>, Union(<<Primitive("null"), Primitive("long")>>), ""),
                             Field(<<"c">>,
                                   Array(Record(<<"C">>,
                                     << Field(<<"z">>, Primitive("string"), "") >>)), "")
                          >>)), "") >>)), "") >>)

\* Wrap{i: long, items: array<A{x: int, b: B{t: array<string>}}>}: an array of
\* primitives inside a record inside an array; b is a record here and an
\* array in Nest and Prev.
WrapSchema ==
  Record(<<"W","r","a","p">>,
    << Field(<<"i">>, Primitive("long"), ""),
       Field(<<"i","t","e","m","s">>,
             Array(Record(<<"A">>,
               << Field(<<"x">>, Primitive("int"), ""),
                  Field(<<"b">>,
                        Record(<<"B">>,
                          << Field(<<"t">>, Array(Primitive("string")), "tags") >>), "")
               >>)), "") >>)

\* Prev{items: array<A{b: array<B{v: [null]}>}>}: no scalar at the root, none
\* directly in the items, and a union whose only branch is null.
PrevSchema ==
  Record(<<"P","r","e","v">>,
    << Field(<<"i","t","e","m","s">>,
             Array(Record(<<"A">>,
               << Field(<<"b">>,
                        Array(Record(<<"B">>,
                          << Field(<<"v">>, Union(<<Primitive("null")>>), "") >>)), "")
               >>)), "") >>)

\* Tags{items: A{t: array<string>}}: items is a record here and an array in
\* the other schemas, so that items.t is an array path with no array above it.
TagsSchema ==
  Record(<<"T","a","g","s">>,
    << Field(<<"i","t","e","m","s">>,
             Record(<<"A">>,
               << Field(<<"t">>, Array(Primitive("string")), "") >>), "") >>)

\* Void{e: []}: a field whose type is a union with no branch.
VoidSchema ==
  Record(<<"V","o","i","d">>, << Field(<<"e">>, Union(<< >>), "") >>)

\* The files the caller can upload; NoFile is "uploaded_file is None".
NoFile == "none"
SchemaIds == {"Order", "Nest", "Wrap", "Prev", "Tags", "Void"}
SchemaOf(id) ==
  CASE id = "Order" -> OrderSchema
    [] id = "Nest" -> NestSchema
    [] id = "Wrap" -> WrapSchema
    [] id = "Prev" -> PrevSchema
    [] id = "Tags" -> TagsSchema
    [] id = "Void" -> VoidSchema

(***************************************************************************)
(* extract_field_paths (include_types=True): the schema walker.            *)
(***************************************************************************)
\* A path_info tuple (path, field_type, doc, optional[, extra]); extra is the
\* enum symbol list or the logical type, absent for array leaves.
NoExtra == [list |-> FALSE, value |-> ""]
PathInfo(path, field_type, doc, optional, extra) ==
  [path |-> path, field_type |-> field_type, doc |-> doc,
   optional |-> optional, extra |-> extra]

\* non_null_types = [t for t in sub_schema.schemas if t.type != "null"]
NonNullTypes(union) == SelectSeq(union.schemas, LAMBDA t : t.type # "null")

\* The effective type of a field and its optional flag (union rule).
EffectiveType(field_type) ==
  IF field_type.type = "union"
  THEN IF NonNullTypes(field_type) # << >>
       THEN NonNullTypes(field_type)[1]
       ELSE field_type.schemas[1]
  ELSE field_type

IsOptional(field_type) ==
  field_type.type = "union" /\ NonNullTypes(field_type) # << >>

\* Line 146, sub_schema = sub_schema.schemas[0], raises IndexError for a union
\* that has no branch at all.
UnionRaises(field_type) == field_type.type = "union" /\ field_type.schemas = << >>

\* full_name = f"{prefix}.{field.name}" if prefix else field.name
FullName(prefix, name) == IF prefix # << >> THEN prefix \o Dot \o name ELSE name

\* "if full_name in array_paths": recurse into the items of this array?
FlattenAlways(full_name, array_paths) == TRUE
ShouldFlatten(full_name, array_paths) == InList(full_name, array_paths)

RECURSIVE extract_field_paths(_, _, _)
RECURSIVE ExtractFields(_, _, _, _)
extract_field_paths(schema_obj, prefix, array_paths) ==
  IF schema_obj.type = "record"
  THEN ExtractFields(schema_obj.fields, 1, prefix, array_paths)
  ELSE << >>

\* The loop "for field in schema_obj.fields", from field i on.
ExtractFields(fields, i, prefix, array_paths) ==
  IF i > Len(fields) THEN << >>
  ELSE
    LET field == fields[i]
        full_name == FullName(prefix, field.name)
        sub_schema == EffectiveType(field.type)
        is_optional == IsOptional(field.type)
        here ==
          IF sub_schema.type = "record"
          THEN extract_field_paths(sub_schema, full_name, array_paths)
          ELSE IF sub_schema.type = "array"
          THEN IF ShouldFlatten(full_name, array_paths)
               THEN extract_field_paths(sub_schema.items, full_name \o ItemMarker, array_paths)
               ELSE << PathInfo(full_name \o ArraySuffix, "array", field.doc, is_optional, NoExtra) >>
          ELSE IF sub_schema.type = "enum"
          THEN << PathInfo(full_name, "enum", field.doc, is_optional,
                           [list |-> TRUE, value |-> ""]) >>
          ELSE << PathInfo(full_name, sub_schema.type, field.doc, is_optional,
                           [list |-> FALSE, value |-> sub_schema.logical_type]) >>
    IN here \o ExtractFields(fields, i + 1, prefix, array_paths)

\* extract_field_paths raises: the walk reaches a field whose union has no
\* branch.
RECURSIVE WalkRaises(_, _, _)
RECURSIVE FieldsRaise(_, _, _, _)
WalkRaises(schema_obj, prefix, array_paths) ==
  schema_obj.type = "record" /\ FieldsRaise(schema_obj.fields, 1, prefix, array_paths)

FieldsRaise(fields, i, prefix, array_paths) ==
  IF i > Len(fields) THEN FALSE
  ELSE IF UnionRaises(fields[i].type) THEN TRUE
  ELSE
    LET full_name == FullName(prefix, fields[i].name)
        sub_schema == EffectiveType(fields[i].type)
        here ==
          IF sub_schema.type = "record"
          THEN WalkRaises(sub_schema, full_name, array_paths)
          ELSE IF sub_schema.type = "array" /\ ShouldFlatten(full_name, array_paths)
          THEN WalkRaises(sub_schema.items, full_name \o ItemMarker, array_paths)
          ELSE FALSE
    IN here \/ FieldsRaise(fields, i + 1, prefix, array_paths)

(***************************************************************************)
(* find_array_fields: array discovery.                                     *)
(***************************************************************************)
\* The union handling of find_array_fields: an all-null union stays a union.
DiscoveryType(field_type) ==
  IF field_type.type = "union" /\ NonNullTypes(field_type) # << >>
  THEN NonNullTypes(field_type)[1]
  ELSE field_type

RECURSIVE find_array_fields(_, _, _)
RECURSIVE FindInFields(_, _, _, _)
HideSelected(schema_obj, prefix, parent_arrays) ==
  SelectSeq(IF schema_obj.type = "record"
            THEN FindInFields(schema_obj.fields, 1, prefix, parent_arrays)
            ELSE << >>,
            LAMBDA full_name : ~InList(full_name, parent_arrays))
find_array_fields(schema_obj, prefix, parent_arrays) ==
  IF schema_obj.type = "record"
  THEN FindInFields(schema_obj.fields, 1, prefix, parent_arrays)
  ELSE << >>

FindInFields(fields, i, prefix, parent_arrays) ==
  IF i > Len(fields) THEN << >>
  ELSE
    LET field == fields[i]
        full_name == FullName(prefix, field.name)
        sub_schema == DiscoveryType(field.type)
        here ==
          IF sub_schema.type = "record"
          THEN find_array_fields(sub_schema, full_name, parent_arrays)
          ELSE IF sub_schema.type = "array"
          THEN <<full_name>> \o
               (IF InList(full_name, parent_arrays)
                THEN find_array_fields(sub_schema.items, full_name \o ItemMarker, parent_arrays)
                ELSE << >>)
          ELSE << >>
    IN here \o FindInFields(fields, i + 1, prefix, parent_arrays)

(***************************************************************************)
(* Python dicts (insertion-ordered): the keys in order and their values.   *)
(***************************************************************************)
EmptyDict == [keys |-> << >>, vals |-> << >>]
DictHas(d, k) == InList(k, d.keys)
DictIndex(d, k) == CHOOSE i \in 1..Len(d.keys) : d.keys[i] = k
DictGet(d, k) == d.vals[DictIndex(d, k)]
\* d[k] = v
DictPut(d, k, v) ==
  IF DictHas(d, k)
  THEN [d EXCEPT !.vals[DictIndex(d, k)] = v]
  ELSE [keys |-> Append(d.keys, k), vals |-> Append(d.vals, v)]
\* "if k not in d: d[k] = []" followed by d[k] += items
DictExtend(d, k, items) ==
  IF DictHas(d, k)
  THEN [d EXCEPT !.vals[DictIndex(d, k)] = @ \o items]
  ELSE [keys |-> Append(d.keys, k), vals |-> Append(d.vals, items)]

(***************************************************************************)
(* build_table_hierarchy: the table partitioner.                           *)
(***************************************************************************)
\* path.startswith(array_path + "[].item")
UnderArray(path, array_path) == StartsWith(path, array_path \o ItemMarker)

\* First loop, inner "for array_path in selected_arrays ... break": the index
\* of the first selected array the leaf is under, 0 if there is none.
FirstSelectedOver(path, selected) ==
  IF \E j \in 1..Len(selected) : UnderArray(path, selected[j])
  THEN CHOOSE j \in 1..Len(selected) :
         /\ UnderArray(path, selected[j])
         /\ \A h \in 1..(j - 1) : ~UnderArray(path, selected[h])
  ELSE 0

\* First loop, from leaf i on: acc = [root_fields, array_tables].
RECURSIVE AssignLeaves(_, _, _, _)
AssignLeaves(paths, i, selected, acc) ==
  IF i > Len(paths) THEN acc
  ELSE
    LET path_info == paths[i]
        j == FirstSelectedOver(path_info.path, selected)
    IN AssignLeaves(paths, i + 1, selected,
         IF j = 0
         THEN [acc EXCEPT !.root_fields = Append(@, path_info)]
         ELSE [acc EXCEPT !.array_tables = DictExtend(@, selected[j], <<path_info>>)])

\* Second loop, innermost "for path_info in paths" for one nested_array: the
\* leaves under nested_array are appended to its entry.
AppendNestedLeaves(array_tables, paths, nested_array) ==
  LET under == SelectSeq(paths, LAMBDA path_info : UnderArray(path_info.path, nested_array))
  IN IF under = << >> THEN array_tables
     ELSE DictExtend(array_tables, nested_array, under)

\* Second loop, "for nested_array in selected_arrays", from index n on.
RECURSIVE HandleNested(_, _, _, _, _)
HandleNested(array_tables, paths, selected, array_path, n) ==
  IF n > Len(selected) THEN array_tables
  ELSE
    LET nested_array == selected[n]
    IN HandleNested(
         IF UnderArray(nested_array, array_path) /\ nested_array # array_path
         THEN AppendNestedLeaves(array_tables, paths, nested_array)
         ELSE array_tables,
         paths, selected, array_path, n + 1)

\* Second loop, "for array_path in selected_arrays", from index j on.
RECURSIVE SeedAndNest(_, _, _, _)
SeedNothing(array_tables, paths, selected, j) == array_tables
SeedAndNest(array_tables, paths, selected, j) ==
  IF j > Len(selected) THEN array_tables
  ELSE
    LET array_path == selected[j]
        seeded == IF DictHas(array_tables, array_path) THEN array_tables
                  ELSE DictPut(array_tables, array_path, << >>)
    IN SeedAndNest(HandleNested(seeded, paths, selected, array_path, 1),
                   paths, selected, j + 1)

\* build_table_hierarchy(paths), with the selected_arrays it reads from the
\* enclosing script.
build_table_hierarchy(paths, selected) ==
  LET first == AssignLeaves(paths, 1, selected,
                            [root_fields |-> << >>, array_tables |-> EmptyDict])
  IN [root_table |-> first.root_fields,
      array_tables |-> SeedAndNest(first.array_tables, paths, selected, 1)]

(***************************************************************************)
(* Key and relationship choices offered on the DDL tab.                    *)
(***************************************************************************)
\* "if field_type not in ('array', 'record')"
KeyEligible(path_info) == path_info.field_type \notin {"array", "record"}

\* root_fields_options
root_fields_options(root_fields) ==
  LET eligible == SelectSeq(root_fields, KeyEligible)
  IN [i \in 1..Len(eligible) |-> eligible[i].path]

\* st.selectbox(options=...): the values the caller can pick; None for no option.
SelectboxValues(options) == IF options = << >> THEN {None} ELSE Range(options)

\* field_name = path.replace(array_path + ".", "")
FieldNameIn(path, array_path) == StrRemove(path, array_path \o Dot)

\* field_options of one array table: the paths of its key-eligible entries.
field_options(fields) ==
  LET eligible == SelectSeq(fields, KeyEligible)
  IN [i \in 1..Len(eligible) |-> eligible[i].path]

\* options_dict = {p[1]: p[0] for p in field_options}: the last path wins a name;
\* the values of options_dict are what array_natural_keys[array_path] can be.
KeyChoices(array_path, fields) ==
  LET opts == field_options(fields)
  IN {opts[i] : i \in {h \in 1..Len(opts) :
                         \A g \in (h + 1)..Len(opts) :
                            FieldNameIn(opts[g], array_path) # FieldNameIn(opts[h], array_path)}}

\* parts[:i] joined, for the largest i in len(parts)-1 .. 1 that names a key
\* of array_tables; None when there is none (array_hierarchy, lines 414-422).
HierarchyParent(array_path, array_tables) ==
  LET parts == StrSplit(array_path)
      hits == {i \in 1..(Len(parts) - 1) : DictHas(array_tables, StrJoin(SubSeq(parts, 1, i)))}
  IN IF hits = {} THEN None
     ELSE StrJoin(SubSeq(parts, 1, CHOOSE i \in hits : \A h \in hits : h <= i))

\* The arrays for which the relation radio is shown.
RelationOffered(array_tables) ==
  {array_tables.keys[i] : i \in {h \in 1..Len(array_tables.keys) :
      HierarchyParent(array_tables.keys[h], array_tables) # None}}

RootChoice == "Root table's key"
ParentChoice == "Parent array's key"
RootName == <<"r","o","o","t">>

\* parent_child_relations[array_path] for a radio value.
Relation(array_path, array_tables, relation_choice) ==
  [parent |-> IF relation_choice = ParentChoice
              THEN HierarchyParent(array_path, array_tables) ELSE RootName,
   choice |-> relation_choice]

DepauditPrefix == <<"d","e","p","a","u","d","i","t","_">>

\* Lines 379-384: the default of the common fields text area, parsed by
\* lines 386-391.
DefaultCommonFields ==
  << [name |-> DepauditPrefix \o <<"p","r","o","c","e","s","s","_","r","u","n","_","i","d">>, type |-> "STRING"],
     [name |-> DepauditPrefix \o <<"i","n","s","e","r","t","_","d","a","t","e">>, type |-> "TIMESTAMP"],
     [name |-> DepauditPrefix \o <<"k","a","f","k","a","_","t","o","p","i","c">>, type |-> "VARCHAR(100)"],
     [name |-> DepauditPrefix \o <<"k","a","f","k","a","_","p","a","r","t","i","t","i","o","n">>, type |-> "INT"],
     [name |-> DepauditPrefix \o <<"k","a","f","k","a","_","o","f","f","s","e","t">>, type |-> "BIGINT"],
     [name |-> DepauditPrefix \o <<"k","a","f","k","a","_","i","n","s","e","r","t","_","d","a","t","e">>, type |-> "TIMESTAMP"] >>

\* common_fields_list values the caller can leave or enter in the text area:
\* the default, or nothing.
CommonFieldChoices == { << >>, DefaultCommonFields }

(***************************************************************************)
(* Generate DDL: the table emitter and the relationship resolver.          *)
(***************************************************************************)
avro_to_hive_type(field_info) ==
  LET hive_type ==
        IF field_info.extra.list THEN HiveTypeTable["enum"]
        ELSE IF field_info.extra.value # "" THEN HiveTypeGet(field_info.extra.value)
        ELSE HiveTypeGet(field_info.field_type)
  IN IF field_info.field_type = "enum" THEN HiveTypeTable["enum"] ELSE hive_type

\* One emitted column: name and type, the role its COMMENT states (a foreign
\* key "to" ref, the natural key of an array, or the field's doc), and the
\* leaf path it was emitted from (None for common fields and a missing key).
Column(name, type, role, ref, doc, leaf) ==
  [name |-> name, type |-> type, role |-> role, ref |-> ref, doc |-> doc, leaf |-> leaf]

CommonColumns(common_fields_list) ==
  [i \in 1..Len(common_fields_list) |->
     Column(common_fields_list[i].name, common_fields_list[i].type, "common", None, "", None)]

\* The column of one leaf in the field loops (lines 523-543 and 667-687).
FieldColumn(column_name, field_info) ==
  IF field_info.field_type \in {"array", "record"}
  THEN Column(column_name \o <<"_","j","s","o","n">>, "STRING", "data", None,
              field_info.doc, field_info.path)
  ELSE Column(column_name, avro_to_hive_type(field_info), "data", None,
              field_info.doc, field_info.path)

\* Line 374: the default of the "Root Table Name" text input,
\* schema_name.lower().
DefaultRootName(schema_obj) == StrLower(schema_obj.name)

\* natural_key_col_name after the root loop: the column name of the last root
\* field whose path is natural_key, "" if there is none.
natural_key_col_name(root_fields, natural_key) ==
  LET hits == {i \in 1..Len(root_fields) : root_fields[i].path = natural_key}
  IN IF hits = {} THEN << >>
     ELSE get_column_name(root_fields[CHOOSE i \in hits : \A h \in hits : h <= i].path)

RootColumns(root_fields, common_fields_list) ==
  CommonColumns(common_fields_list) \o
  [i \in 1..Len(root_fields) |-> FieldColumn(get_column_name(root_fields[i].path), root_fields[i])]

\* next((f for f in fields if f[0] == key_path), None): << >> stands for None
FindField(fields, key_path) ==
  LET hits == {i \in 1..Len(fields) : fields[i].path = key_path}
  IN IF hits = {} THEN << >>
     ELSE << fields[CHOOSE i \in hits : \A h \in hits : i <= h] >>

\* table_name = f"{root_table_name}_{get_column_name(array_path)}"
TableName(root_name, array_path) == root_name \o <<"_">> \o get_column_name(array_path)

\* Lines 573-579: the longest other selected array this array is under.
ImmediateParent(array_path, selected) ==
  LET over == {j \in 1..Len(selected) :
                 array_path # selected[j] /\ UnderArray(array_path, selected[j])}
  IN IF over = {} THEN None
     ELSE selected[CHOOSE j \in over :
            /\ \A h \in over : Len(selected[h]) <= Len(selected[j])
            /\ \A h \in over : Len(selected[h]) = Len(selected[j]) => j <= h]

\* The foreign-key column with the type of the key's entry in the parent
\* group, or of the generic type when the entry is not found.
ForeignKeyColumn(parent_key_column, parent_table, parent_key_path, parent_fields) ==
  LET parent_field_info == FindField(parent_fields, parent_key_path)
  IN IF parent_field_info # << >>
     THEN Column(parent_key_column, avro_to_hive_type(parent_field_info[1]),
                 "fk", parent_table, "", parent_key_path)
     ELSE Column(parent_key_column, GenericKeyType, "fk", parent_table, "", parent_key_path)

\* Lines 584-597 and 604-618: the foreign key to a parent array's natural key.
\* raised: array_natural_keys[parent_array] or array_tables[parent_array]
\* raises KeyError.
ParentArrayKey(root_name, parent_array, array_tables, array_natural_keys) ==
  IF parent_array \notin DOMAIN array_natural_keys \/ ~DictHas(array_tables, parent_array)
  THEN [raised |-> TRUE, cols |-> << >>]
  ELSE [raised |-> FALSE,
        cols |-> << ForeignKeyColumn(
                      get_column_name(FieldNameIn(array_natural_keys[parent_array], parent_array)),
                      TableName(root_name, parent_array),
                      array_natural_keys[parent_array],
                      DictGet(array_tables, parent_array)) >>]

\* Lines 620-631 and 633-644: the foreign key to the root table's natural key.
RootKey(root_name, root_fields, natural_key) ==
  [raised |-> FALSE,
   cols |-> << ForeignKeyColumn(natural_key_col_name(root_fields, natural_key),
                                root_name, natural_key, root_fields) >>]

\* Line 582: the nested-array branch is taken.
UseParentAlways(parent_array, array_natural_keys) == parent_array # None
UseParentArray(parent_array, array_natural_keys) ==
  parent_array # None /\ parent_array \in DOMAIN array_natural_keys

\* Lines 569-644: the foreign-key column of one array table.
ForeignKey(root_name, array_path, selected, root_fields, array_tables, natural_key, array_natural_keys, parent_child_relations) ==
  LET parent_array == ImmediateParent(array_path, selected)
  IN IF UseParentArray(parent_array, array_natural_keys)
     THEN ParentArrayKey(root_name, parent_array, array_tables, array_natural_keys)
     ELSE IF array_path \in DOMAIN parent_child_relations
     THEN LET relation == parent_child_relations[array_path]
          IN IF relation.choice = ParentChoice /\ relation.parent \in DOMAIN array_natural_keys
             THEN ParentArrayKey(root_name, relation.parent, array_tables, array_natural_keys)
             ELSE RootKey(root_name, root_fields, natural_key)
     ELSE RootKey(root_name, root_fields, natural_key)

\* Lines 646-652: the array's own natural-key column, if one is chosen.
OwnKeyColumn(array_path, fields, array_natural_keys) ==
  IF array_path \in DOMAIN array_natural_keys
  THEN LET array_key_path == array_natural_keys[array_path]
           array_key_info == FindField(fields, array_key_path)
       IN IF array_key_info # << >>
          THEN << Column(get_column_name(FieldNameIn(array_key_path, array_path)),
                         avro_to_hive_type(array_key_info[1]), "key", None, "",
                         array_key_path) >>
          ELSE << >>
  ELSE << >>

\* Line 660: "Skip fields that were already added as keys".
SkipNever(array_path, path, array_natural_keys) == FALSE
SkipKey(array_path, path, array_natural_keys) ==
  array_path \in DOMAIN array_natural_keys /\ path = array_natural_keys[array_path]

\* Lines 655-687: the columns of the array's fields.
RECURSIVE ArrayFieldColumns(_, _, _, _)
ArrayFieldColumns(array_path, fields, i, array_natural_keys) ==
  IF i > Len(fields) THEN << >>
  ELSE (IF SkipKey(array_path, fields[i].path, array_natural_keys) THEN << >>
        ELSE << FieldColumn(get_column_name(FieldNameIn(fields[i].path, array_path)),
                            fields[i]) >>)
       \o ArrayFieldColumns(array_path, fields, i + 1, array_natural_keys)

\* Lines 558-695, one pass of "for array_path, fields in array_tables.items()":
\* common fields, foreign key, own natural key, then the fields.
ArrayTable(root_name, array_path, fields, selected, root_fields, array_tables, common_fields_list, natural_key, array_natural_keys, parent_child_relations) ==
  LET fk == ForeignKey(root_name, array_path, selected, root_fields, array_tables,
                       natural_key, array_natural_keys, parent_child_relations)
  IN [raised |-> fk.raised,
      cols |-> CommonColumns(common_fields_list)
               \o fk.cols
               \o OwnKeyColumn(array_path, fields, array_natural_keys)
               \o ArrayFieldColumns(array_path, fields, 1, array_natural_keys)]

\* array_ddls[table_name] = array_ddl for the entries of array_tables from i on;
\* acc = [raised, ddls].  An exception ends the run with no DDL shown.
RECURSIVE ArrayDDLs(_, _, _, _, _, _, _, _, _, _)
ArrayDDLs(root_name, i, selected, root_fields, array_tables, common_fields_list, natural_key, array_natural_keys, parent_child_relations, acc) ==
  IF i > Len(array_tables.keys) THEN acc
  ELSE
    LET array_path == array_tables.keys[i]
        table == ArrayTable(root_name, array_path, array_tables.vals[i], selected,
                            root_fields, array_tables, common_fields_list,
                            natural_key, array_natural_keys, parent_child_relations)
    IN IF table.raised THEN [raised |-> TRUE, ddls |-> EmptyDict]
       ELSE ArrayDDLs(root_name, i + 1, selected, root_fields, array_tables,
                      common_fields_list, natural_key, array_natural_keys,
                      parent_child_relations,
                      [acc EXCEPT !.ddls = DictPut(@, TableName(root_name, array_path), table.cols)])

(***************************************************************************)
(* The script as a state machine: one action per caller interaction, each  *)
(* the whole script run it triggers (with the st.rerun() that follows a    *)
(* change of selected_arrays).                                             *)
(***************************************************************************)
VARIABLES
  schema,                 \* the uploaded file (a SchemaIds member) or NoFile
  selected_arrays,        \* st.session_state.selected_arrays
  first_load,             \* 'first_load' in st.session_state
  array_fields,           \* the arrays discovered by the last run
  flat_paths,             \* extract_field_paths(schema, array_paths=selected_arrays)
  root_fields,            \* table_structure["root_table"]
  array_tables,           \* table_structure["array_tables"]
  generated,              \* the last run was a "Generate DDL" click
  common_fields_list,     \* the common fields read by that run
  natural_key,            \* the root key selectbox value
  array_natural_keys,     \* array path -> chosen key path
  parent_child_relations, \* array path -> [parent, choice]
  root_ddl,               \* the columns of the root table
  array_ddls,             \* table name -> the columns of the array table
  raised,                 \* the last run ended in an exception
  changed,                \* the last run ended in st.rerun() (lines 267-268)
  root_table_name         \* the "Root Table Name" text input read by that run

vars == <<schema, selected_arrays, first_load, array_fields, flat_paths, root_fields,
          array_tables, generated, common_fields_list, natural_key, array_natural_keys,
          parent_child_relations, root_ddl, array_ddls, raised, changed,
          root_table_name>>

EmptyMap == [x \in {} |-> None]

\* Nothing generated: the DDL tab shows no DDL.
NoDDL ==
  /\ generated' = FALSE
  /\ root_table_name' = None
  /\ common_fields_list' = << >>
  /\ natural_key' = None
  /\ array_natural_keys' = EmptyMap
  /\ parent_child_relations' = EmptyMap
  /\ root_ddl' = << >>
  /\ array_ddls' = EmptyDict

\* Lines 222-229: discovery at the top of a run.
DiscoverTopLevel(schema_id, selected, loaded) ==
  find_array_fields(SchemaOf(schema_id), << >>, << >>)
Discover(schema_id, selected, loaded) ==
  IF loaded THEN find_array_fields(SchemaOf(schema_id), << >>, selected)
  ELSE find_array_fields(SchemaOf(schema_id), << >>, << >>)

\* Lines 222-229, 277 and 368-370 of the run that ends the interaction.  When
\* line 277 raises, the run stops there: the sidebar is drawn, nothing else.
ScriptRun(schema_id, selected, loaded) ==
  /\ array_fields' = Discover(schema_id, selected, loaded)
  /\ first_load' = TRUE
  /\ changed' = FALSE
  /\ IF WalkRaises(SchemaOf(schema_id), << >>, selected)
     THEN /\ raised' = TRUE
          /\ flat_paths' = << >>
          /\ root_fields' = << >>
          /\ array_tables' = EmptyDict
     ELSE LET paths == extract_field_paths(SchemaOf(schema_id), << >>, selected)
              table_structure == build_table_hierarchy(paths, selected)
          IN /\ raised' = FALSE
             /\ flat_paths' = paths
             /\ root_fields' = table_structure.root_table
             /\ array_tables' = table_structure.array_tables

\* The two rules by which a Streamlit build identifies a widget drawn with
\* key=: by its parameters (a changed value= makes a new widget, which
\* returns value=) or by its key alone (the state kept under the key is
\* returned and value= is ignored).  The script does not fix the rule: a run
\* whose button replaces the list has either outcome.
WidgetIdentities == {"params", "key"}

Init ==
  /\ schema = NoFile
  /\ selected_arrays = << >>
  /\ first_load = FALSE
  /\ array_fields = << >>
  /\ flat_paths = << >>
  /\ root_fields = << >>
  /\ array_tables = EmptyDict
  /\ generated = FALSE
  /\ common_fields_list = << >>
  /\ natural_key = None
  /\ array_natural_keys = EmptyMap
  /\ parent_child_relations = EmptyMap
  /\ root_ddl = << >>
  /\ array_ddls = EmptyDict
  /\ raised = FALSE
  /\ changed = FALSE
  /\ root_table_name = None

\* Lines 100-104: the caller uploads (another) schema file; the session state
\* is kept.
Upload(schema_id) ==
  /\ ~changed
  /\ schema_id # schema
  /\ schema' = schema_id
  /\ selected_arrays' = selected_arrays
  /\ ScriptRun(schema_id, selected_arrays, first_load)
  /\ NoDDL

\* Lines 100-102: the caller removes the uploaded file; the run skips
\* everything below line 102 and the session state is kept.
RemoveFile ==
  /\ ~changed
  /\ schema # NoFile
  /\ schema' = NoFile
  /\ array_fields' = << >>
  /\ flat_paths' = << >>
  /\ root_fields' = << >>
  /\ array_tables' = EmptyDict
  /\ raised' = FALSE
  /\ NoDDL
  /\ UNCHANGED <<selected_arrays, first_load, changed>>

\* Lines 222-268 of a run in which selected_arrays changes: the arrays are
\* discovered with the list as it was, the list is changed and the run ends
\* in st.rerun() at line 268, before line 277.
RunUntilRerun(selected) ==
  /\ schema' = schema
  /\ selected_arrays' = selected
  /\ array_fields' = Discover(schema, selected_arrays, first_load)
  /\ first_load' = TRUE
  /\ changed' = TRUE
  /\ raised' = FALSE
  /\ flat_paths' = << >>
  /\ root_fields' = << >>
  /\ array_tables' = EmptyDict
  /\ NoDDL

\* The run st.rerun() starts: no checkbox differs from the list any more.
Rerun ==
  /\ changed
  /\ schema' = schema
  /\ selected_arrays' = selected_arrays
  /\ ScriptRun(schema, selected_arrays, first_load)
  /\ NoDDL

\* Lines 258-261: the caller ticks the checkbox of a discovered array.
Tick(field) ==
  /\ ~changed
  /\ schema # NoFile
  /\ InList(field, array_fields)
  /\ ~InList(field, selected_arrays)
  /\ RunUntilRerun(Append(selected_arrays, field))

\* Lines 262-264: the caller unticks the checkbox of a selected array.
Untick(field) ==
  /\ ~changed
  /\ schema # NoFile
  /\ InList(field, array_fields)
  /\ InList(field, selected_arrays)
  /\ RunUntilRerun(SelectSeq(selected_arrays, LAMBDA a : a # field))

\* Lines 254-264: selected is the list when the loop starts (as the last
\* run left it, or as a button of this run has replaced it), seen the list
\* the caller saw.  A checkbox identified by its parameters returns value=,
\* its membership of selected, and changes nothing; one identified by its
\* key returns its state, the membership of seen, and the loop removes the
\* unticked paths from the list and appends the ticked ones.  A path with no
\* checkbox stays in the list.
CheckboxLoopDropping(fields, selected, seen, identity) ==
  IF identity = "params" THEN SelectSeq(selected, LAMBDA a : InList(a, fields))
  ELSE SelectSeq(selected, LAMBDA a : InList(a, fields) /\ InList(a, seen))
       \o SelectSeq(fields, LAMBDA a : InList(a, seen) /\ ~InList(a, selected))
CheckboxLoop(fields, selected, seen, identity) ==
  IF identity = "params" THEN selected
  ELSE SelectSeq(selected, LAMBDA a : ~InList(a, fields) \/ InList(a, seen))
       \o SelectSeq(fields, LAMBDA a : InList(a, seen) /\ ~InList(a, selected))

\* Lines 240-243: "Select All".
SelectAll ==
  /\ ~changed
  /\ schema # NoFile
  /\ array_fields # << >>
  /\ \E identity \in WidgetIdentities :
       RunUntilRerun(CheckboxLoop(array_fields, array_fields, selected_arrays, identity))

\* Lines 246-249: "Deselect All".
DeselectAll ==
  /\ ~changed
  /\ schema # NoFile
  /\ array_fields # << >>
  /\ \E identity \in WidgetIdentities :
       RunUntilRerun(CheckboxLoop(array_fields, << >>, selected_arrays, identity))

\* The caller changes a widget other than the array checkboxes and the two
\* buttons ("Show field types", line 274, or a widget of the DDL tab): the
\* script runs with st.button("Generate DDL") False, and shows no DDL.
EditWidget ==
  /\ ~changed
  /\ schema # NoFile
  /\ schema' = schema
  /\ selected_arrays' = selected_arrays
  /\ ScriptRun(schema, selected_arrays, first_load)
  /\ NoDDL

\* The values the table name input, the key selectboxes and the relation
\* radios can hold in a run.
RootNameChoices ==
  IF schema = NoFile THEN {}
  ELSE {DefaultRootName(SchemaOf(schema)), <<"S","a","l","e","s">>}
NaturalKeyChoices == SelectboxValues(root_fields_options(root_fields))
KeyedArrays ==
  {array_tables.keys[i] : i \in {h \in 1..Len(array_tables.keys) :
                                   field_options(array_tables.vals[h]) # << >>}}
ArrayKeyChoices ==
  LET choices == [a \in KeyedArrays |-> KeyChoices(a, DictGet(array_tables, a))]
  IN {f \in [KeyedArrays -> UNION {choices[a] : a \in KeyedArrays}] :
        \A a \in KeyedArrays : f[a] \in choices[a]}
RelationChoices ==
  {[a \in RelationOffered(array_tables) |-> Relation(a, array_tables, c[a])] :
     c \in [RelationOffered(array_tables) -> {RootChoice, ParentChoice}]}

\* Lines 222-264 of a run in which the caller clicked nothing in the
\* sidebar: each checkbox holds what the caller saw, its membership of the
\* list.
Sidebar(schema_id, selected, loaded, identity) ==
  LET fields == Discover(schema_id, selected, loaded)
  IN [array_fields |-> fields,
      selected_arrays |-> CheckboxLoop(fields, selected, selected, identity)]

\* The sidebar of such a run under the widget rules a build can have.
Sidebars(schema_id, selected, loaded) ==
  {Sidebar(schema_id, selected, loaded, identity) : identity \in WidgetIdentities}

\* Lines 267-695 of the run a click on "Generate DDL" starts, as a function of
\* what the run reads: the uploaded schema, the list as the run found it and
\* as the sidebar left it, and the widget values.  A run whose checkbox loop
\* changed the list ends in st.rerun() at line 268 and shows nothing; one
\* whose key lookups raise shows no DDL.  root_ddl and array_ddls are locals
\* of the run (lines 504 and 552): nothing of an earlier run is left in them.
GenerateRun(schema_id, selected, sidebar, root_name, common, key, array_keys, relations) ==
  LET list == sidebar.selected_arrays
      paths == extract_field_paths(SchemaOf(schema_id), << >>, list)
      table_structure == build_table_hierarchy(paths, list)
      out == ArrayDDLs(root_name, 1, list, table_structure.root_table,
                       table_structure.array_tables, common, key, array_keys,
                       relations, [raised |-> FALSE, ddls |-> EmptyDict])
  IN IF list # selected
     THEN [selected_arrays |-> list, array_fields |-> sidebar.array_fields,
           changed |-> TRUE, raised |-> FALSE, flat_paths |-> << >>,
           root_fields |-> << >>, array_tables |-> EmptyDict,
           root_ddl |-> << >>, array_ddls |-> EmptyDict]
     ELSE [selected_arrays |-> list, array_fields |-> sidebar.array_fields,
           changed |-> FALSE, raised |-> out.raised, flat_paths |-> paths,
           root_fields |-> table_structure.root_table,
           array_tables |-> table_structure.array_tables,
           root_ddl |-> IF out.raised THEN << >>
                        ELSE RootColumns(table_structure.root_table, common),
           array_ddls |-> out.ddls]

\* The caller clicks "Generate DDL", which the last run drew (it went past
\* line 277): the state after the click's run, with the table name, the
\* common fields, the key selectboxes and the relation radios as the run
\* read them.
GenerateDDL(root_name, common, key, array_keys, relations) ==
  /\ schema # NoFile
  /\ ~changed
  /\ ~WalkRaises(SchemaOf(schema), << >>, selected_arrays)
  /\ \E sidebar \in Sidebars(schema, selected_arrays, first_load) :
       LET Show(run) ==
             /\ selected_arrays' = run.selected_arrays
             /\ array_fields' = run.array_fields
             /\ changed' = run.changed
             /\ raised' = run.raised
             /\ flat_paths' = run.flat_paths
             /\ root_fields' = run.root_fields
             /\ array_tables' = run.array_tables
             /\ root_ddl' = run.root_ddl
             /\ array_ddls' = run.array_ddls
       IN Show(GenerateRun(schema, selected_arrays, sidebar, root_name, common,
                           key, array_keys, relations))
  /\ schema' = schema
  /\ first_load' = TRUE
  /\ generated' = TRUE
  /\ root_table_name' = root_name
  /\ common_fields_list' = common
  /\ natural_key' = key
  /\ array_natural_keys' = array_keys
  /\ parent_child_relations' = relations

\* A click on "Generate DDL" reads the widgets as the caller has set them; a
\* click that follows a generating run with no widget edited in between
\* reads the values that run read.
ClickGenerate ==
  IF generated
  THEN GenerateDDL(root_table_name, common_fields_list, natural_key,
                   array_natural_keys, parent_child_relations)
  ELSE \E root_name \in RootNameChoices, common \in CommonFieldChoices,
          key \in NaturalKeyChoices, array_keys \in ArrayKeyChoices,
          relations \in RelationChoices :
         GenerateDDL(root_name, common, key, array_keys, relations)

Next ==
  \/ \E schema_id \in SchemaIds : Upload(schema_id)
  \/ \E i \in 1..Len(array_fields) : Tick(array_fields[i])
  \/ \E i \in 1..Len(array_fields) : Untick(array_fields[i])
  \/ SelectAll
  \/ DeselectAll
  \/ Rerun
  \/ RemoveFile
  \/ EditWidget
  \/ ClickGenerate

Spec == Init /\ [][Next]_vars

(***************************************************************************)
(* Vocabulary of the properties.                                           *)
(***************************************************************************)
\* The last run of the script went past the sidebar to the walk at line 277:
\* a file is uploaded and the run did not end in st.rerun().
Walked == schema # NoFile /\ ~changed

\* The table groups: None names the root group, an array path its entry.
GroupIds == {None} \cup Range(array_tables.keys)
GroupOf(g) == IF g = None THEN root_fields ELSE DictGet(array_tables, g)
InGroup(path, g) == \E i \in 1..Len(GroupOf(g)) : GroupOf(g)[i].path = path
Occurrences(path, fields) == Cardinality({i \in 1..Len(fields) : fields[i].path = path})

\* The selected arrays a path lies under, and the longest of them (None if
\* there is none): the most specific selected array ancestor.
SelectedOver(path) ==
  {selected_arrays[j] : j \in {h \in 1..Len(selected_arrays) :
                                 StartsWith(path, selected_arrays[h] \o ItemMarker)}}
LongestSelectedOver(path) ==
  IF SelectedOver(path) = {} THEN None
  ELSE CHOOSE A \in SelectedOver(path) : \A B \in SelectedOver(path) : Len(B) <= Len(A)

\* The emitted table of a selected array and its columns by role.
RootTableName == root_table_name
TableOf(array_path) == DictGet(array_ddls, TableName(RootTableName, array_path))
HasTable(array_path) == DictHas(array_ddls, TableName(RootTableName, array_path))
WithRole(cols, role) == SelectSeq(cols, LAMBDA c : c.role = role)
LeafSeq(cols) == [i \in 1..Len(cols) |-> cols[i].leaf]
PathSeq(fields) == [i \in 1..Len(fields) |-> fields[i].path]
SelectedSet == Range(selected_arrays)

\* The array whose table has this name (None for the root table).
GroupOfTable(table_name) ==
  IF table_name = RootTableName THEN None
  ELSE CHOOSE A \in Range(array_tables.keys) : TableName(RootTableName, A) = table_name

\* The caller's relation radio for this array says "Root table's key".
ChoseRoot(array_path) ==
  /\ array_path \in DOMAIN parent_child_relations
  /\ parent_child_relations[array_path].choice = RootChoice

(***************************************************************************)
(* C1 - Coverage.                                                          *)
(***************************************************************************)
\* C1: every leaf produced by extract_field_paths is a member of exactly one
\* table group of build_table_hierarchy's result (the root group or one
\* array_tables entry): none is missing, none is in two different groups.
C1_Coverage ==
  \A i \in 1..Len(flat_paths) :
    Cardinality({g \in GroupIds : InGroup(flat_paths[i].path, g)}) = 1

(***************************************************************************)
(* C2 - Partition target.                                                  *)
(***************************************************************************)
\* C2: a leaf is a member of group g exactly when g is the longest selected
\* array path A with the leaf path starting with A + "[].item" (the root
\* group when there is no such A); so a leaf under a selected inner array is
\* in the inner array's group and not in the outer array's.
C2_PartitionTarget ==
  \A i \in 1..Len(flat_paths) : \A g \in GroupIds :
    InGroup(flat_paths[i].path, g) <=> g = LongestSelectedOver(flat_paths[i].path)

(***************************************************************************)
(* C3 - Nested binding.                                                    *)
(***************************************************************************)
\* C3: after Generate DDL, the table of every selected array A that lies
\* under another selected array has its foreign key on the table of the
\* longest such array B, and the key is B's chosen natural key when B has
\* one, unless the caller chose "Root table's key" for A; also when B's
\* group has no key-eligible leaf.
C3_NestedBinding ==
  (generated /\ ~raised) =>
    \A A \in SelectedSet :
      LET B == LongestSelectedOver(A)
      IN (B # None /\ ~ChoseRoot(A)) =>
           /\ HasTable(A)
           /\ Len(WithRole(TableOf(A), "fk")) = 1
           /\ WithRole(TableOf(A), "fk")[1].ref = TableName(RootTableName, B)
           /\ B \in DOMAIN array_natural_keys =>
                WithRole(TableOf(A), "fk")[1].leaf = array_natural_keys[B]

(***************************************************************************)
(* C4 - Explicit override.                                                 *)
(***************************************************************************)
\* C4: after Generate DDL, when a selected array A lies under another
\* selected array and the caller's relation choice for A is "Root table's
\* key", the foreign key of A's table is the root table's natural key and
\* references the root table.
C4_ExplicitOverride ==
  (generated /\ ~raised) =>
    \A A \in SelectedSet :
      (LongestSelectedOver(A) # None /\ ChoseRoot(A)) =>
        /\ HasTable(A)
        /\ Len(WithRole(TableOf(A), "fk")) = 1
        /\ WithRole(TableOf(A), "fk")[1].ref = RootTableName
        /\ WithRole(TableOf(A), "fk")[1].leaf = natural_key

(***************************************************************************)
(* C5 - Root binding.                                                      *)
(***************************************************************************)
\* The root table's columns emitted from the root's natural key.
RootKeyColumns ==
  SelectSeq(root_ddl, LAMBDA c : c.role = "data" /\ c.leaf = natural_key)

\* C5: after Generate DDL, the table of every selected array that lies under
\* no other selected array has exactly one foreign-key column; it references
\* the root table, carries the normalized name of the root's natural key and
\* has the type of that key's column in the root table.
C5_RootBinding ==
  (generated /\ ~raised) =>
    \A A \in SelectedSet :
      LongestSelectedOver(A) = None =>
        /\ HasTable(A)
        /\ Len(WithRole(TableOf(A), "fk")) = 1
        /\ WithRole(TableOf(A), "fk")[1].ref = RootTableName
        /\ WithRole(TableOf(A), "fk")[1].name = get_column_name(natural_key)
        /\ Len(RootKeyColumns) = 1
        /\ WithRole(TableOf(A), "fk")[1].type = RootKeyColumns[1].type

(***************************************************************************)
(* C6 - Fallback safety.                                                   *)
(***************************************************************************)
\* The foreign key's referenced leaf is not an entry of the parent group.
KeyLeafMissing(fk) == ~InGroup(fk.leaf, GroupOfTable(fk.ref))

\* C6: Generate DDL never raises, whatever the schema, the selection (stale
\* paths included) and the key choices (none for the root, none for a parent
\* array); every selected array gets a table with one foreign-key column,
\* and that column has the generic type VARCHAR(255) whenever the referenced
\* key leaf is not found in the parent group.
C6_FallbackSafety ==
  generated =>
    /\ ~raised
    /\ \A A \in SelectedSet :
         /\ HasTable(A)
         /\ Len(WithRole(TableOf(A), "fk")) = 1
         /\ KeyLeafMissing(WithRole(TableOf(A), "fk")[1]) =>
              WithRole(TableOf(A), "fk")[1].type = "VARCHAR(255)"

\* DDL generated with no root key, for a selection that holds a path the walk
\* no longer reaches and an array nested in a selected array without a key.
C6_Witness ==
  /\ generated
  /\ natural_key = None
  /\ \E A \in SelectedSet : ~InList(A, array_fields)
  /\ \E A \in SelectedSet :
       /\ LongestSelectedOver(A) # None
       /\ LongestSelectedOver(A) \notin DOMAIN array_natural_keys
       /\ HasTable(A)
       /\ KeyLeafMissing(WithRole(TableOf(A), "fk")[1])

(***************************************************************************)
(* C7 - Key exclusivity.                                                   *)
(***************************************************************************)
\* The columns of a table emitted from a leaf as its key or as plain data
\* (the foreign key repeats the parent's key and is not counted).
OwnColumnsOf(cols, path) ==
  SelectSeq(cols, LAMBDA c : c.role \in {"key", "data"} /\ c.leaf = path)

\* C7: in every emitted table the leaf chosen as the table's natural key
\* yields exactly one column: the natural-key column in an array table (the
\* field loop skips every entry of that leaf), one inline column in the root.
C7_KeyExclusivity ==
  (generated /\ ~raised) =>
    /\ natural_key # None => Len(OwnColumnsOf(root_ddl, natural_key)) = 1
    /\ \A A \in DOMAIN array_natural_keys :
         /\ HasTable(A)
         /\ Len(OwnColumnsOf(TableOf(A), array_natural_keys[A])) = 1
         /\ OwnColumnsOf(TableOf(A), array_natural_keys[A])[1].role = "key"

\* DDL generated for an array whose group lists its key leaf more than once.
C7_Witness ==
  /\ generated /\ ~raised
  /\ natural_key # None
  /\ \E A \in DOMAIN array_natural_keys :
       Occurrences(array_natural_keys[A], DictGet(array_tables, A)) >= 2

(***************************************************************************)
(* C8 - Column order.                                                      *)
(***************************************************************************)
\* The leaves of a group in the order the walker produced them.
WalkerOrder(g) == PathSeq(SelectSeq(flat_paths, LAMBDA l : InGroup(l.path, g)))

\* The common-field columns come first, in the given order.
CommonFirst(cols) ==
  /\ Len(cols) >= Len(common_fields_list)
  /\ \A i \in 1..Len(common_fields_list) :
       /\ cols[i].role = "common"
       /\ cols[i].name = common_fields_list[i].name
       /\ cols[i].type = common_fields_list[i].type

\* C8: an array table lists the common fields, then the foreign key, then
\* its own natural key if one is chosen, then the remaining leaves of its
\* group in walker order without the key leaf; the root table lists the
\* common fields and then the root leaves in walker order.
C8_ColumnOrder ==
  (generated /\ ~raised) =>
    /\ CommonFirst(root_ddl)
    /\ LeafSeq(SubSeq(root_ddl, Len(common_fields_list) + 1, Len(root_ddl))) = WalkerOrder(None)
    /\ \A A \in SelectedSet :
         LET cols == TableOf(A)
             n == Len(common_fields_list)
             keyed == A \in DOMAIN array_natural_keys
             first == IF keyed THEN n + 3 ELSE n + 2
         IN /\ HasTable(A)
            /\ CommonFirst(cols)
            /\ Len(cols) >= first - 1
            /\ cols[n + 1].role = "fk"
            /\ keyed => (cols[n + 2].role = "key" /\ cols[n + 2].leaf = array_natural_keys[A])
            /\ \A i \in first..Len(cols) : cols[i].role = "data"
            /\ LeafSeq(SubSeq(cols, first, Len(cols))) =
                 SelectSeq(WalkerOrder(A),
                           LAMBDA path : ~(keyed /\ path = array_natural_keys[A]))

(***************************************************************************)
(* C9 - Selected array items.                                              *)
(***************************************************************************)
\* The selected arrays the walker reaches, each with the path of its items
\* and its item type.
RECURSIVE SelectedItems(_, _, _)
RECURSIVE SelectedItemsOfFields(_, _, _, _)
SelectedItems(schema_obj, prefix, array_paths) ==
  IF schema_obj.type = "record"
  THEN SelectedItemsOfFields(schema_obj.fields, 1, prefix, array_paths)
  ELSE << >>
SelectedItemsOfFields(fields, i, prefix, array_paths) ==
  IF i > Len(fields) THEN << >>
  ELSE
    LET full_name == FullName(prefix, fields[i].name)
        t == DiscoveryType(fields[i].type)
        here ==
          IF t.type = "record" THEN SelectedItems(t, full_name, array_paths)
          ELSE IF t.type = "array" /\ InList(full_name, array_paths)
          THEN << [path |-> full_name \o ItemMarker, items |-> t.items] >>
               \o SelectedItems(t.items, full_name \o ItemMarker, array_paths)
          ELSE << >>
    IN here \o SelectedItemsOfFields(fields, i + 1, prefix, array_paths)

\* The paths and kinds of the leaves a field of type item_type at path would
\* give: the leaves of a record's fields, the array rule for an array, one
\* leaf for an enum or a primitive.
LeavesAsField(item_type, path, array_paths) ==
  LET t == EffectiveType(item_type)
  IN IF t.type = "record"
     THEN LET l == extract_field_paths(t, path, array_paths)
          IN [i \in 1..Len(l) |-> <<l[i].path, l[i].field_type>>]
     ELSE IF t.type = "array"
     THEN IF InList(path, array_paths)
          THEN LET l == extract_field_paths(t.items, path \o ItemMarker, array_paths)
               IN [i \in 1..Len(l) |-> <<l[i].path, l[i].field_type>>]
          ELSE << <<path \o ArraySuffix, "array">> >>
     ELSE << <<path, t.type>> >>

\* The leaves of the walk under a path, as (path, kind) pairs.
LeavesUnder(path) ==
  LET l == SelectSeq(flat_paths, LAMBDA x : StartsWith(x.path, path))
  IN [i \in 1..Len(l) |-> <<l[i].path, l[i].field_type>>]

\* C9: for every selected array the walker reaches, the leaves it produces
\* for the items are those a field of the item type would give at the path
\* suffixed with "[].item" (one leaf for a primitive or an enum item type);
\* the array's data does not disappear from the walker's output.
C9_SelectedItems ==
  Walked =>
    \A r \in Range(SelectedItems(SchemaOf(schema), << >>, selected_arrays)) :
      /\ LeavesUnder(r.path) = LeavesAsField(r.items, r.path, selected_arrays)
      /\ LeavesUnder(r.path) # << >>

(***************************************************************************)
(* C10 - Unselected arrays stop traversal.                                 *)
(***************************************************************************)
\* C10: every array field the walk reaches whose path is not selected gives
\* exactly one leaf, of kind "array" and path field + "[]", and no leaf for
\* anything inside its items, also when arrays nested in it are selected.
C10_UnselectedStop ==
  Walked =>
    \A i \in 1..Len(array_fields) :
      LET field == array_fields[i]
      IN ~InList(field, selected_arrays) =>
           /\ Cardinality({h \in 1..Len(flat_paths) :
                             StartsWith(flat_paths[h].path, field \o ArraySuffix)}) = 1
           /\ \E h \in 1..Len(flat_paths) :
                /\ flat_paths[h].path = field \o ArraySuffix
                /\ flat_paths[h].field_type = "array"

\* An unselected array is walked while an array nested in it is still
\* selected.
C10_Witness ==
  /\ Walked
  /\ \E i \in 1..Len(array_fields) :
       /\ ~InList(array_fields[i], selected_arrays)
       /\ \E A \in SelectedSet : StartsWith(A, array_fields[i] \o ItemMarker)

(***************************************************************************)
(* C11 - Union rule.                                                       *)
(***************************************************************************)
\* The fields the walk turns into one leaf each, with the leaf's path and the
\* declared type of the field.
RECURSIVE LeafFields(_, _, _)
RECURSIVE LeafFieldsOf(_, _, _, _)
LeafFields(schema_obj, prefix, array_paths) ==
  IF schema_obj.type = "record"
  THEN LeafFieldsOf(schema_obj.fields, 1, prefix, array_paths)
  ELSE << >>
LeafFieldsOf(fields, i, prefix, array_paths) ==
  IF i > Len(fields) THEN << >>
  ELSE
    LET full_name == FullName(prefix, fields[i].name)
        t == DiscoveryType(fields[i].type)
        here ==
          IF t.type = "record" THEN LeafFields(t, full_name, array_paths)
          ELSE IF t.type = "array"
          THEN IF InList(full_name, array_paths)
               THEN LeafFields(t.items, full_name \o ItemMarker, array_paths)
               ELSE << [path |-> full_name \o ArraySuffix, declared |-> fields[i].type] >>
          ELSE << [path |-> full_name, declared |-> fields[i].type] >>
    IN here \o LeafFieldsOf(fields, i + 1, prefix, array_paths)

\* The branches of a declared type that are not null.
NonNullBranches(declared) ==
  IF declared.type = "union" THEN SelectSeq(declared.schemas, LAMBDA t : t.type # "null")
  ELSE << >>

\* The kind the union rule gives a leaf: that of the first non-null branch,
\* of the first branch when every branch is null, of the type itself when it
\* is not a union.
RuleKind(declared) ==
  IF declared.type # "union" THEN declared.type
  ELSE IF NonNullBranches(declared) # << >> THEN NonNullBranches(declared)[1].type
  ELSE declared.schemas[1].type

\* The last run stopped with an exception in the walker.
WalkerFailed == raised /\ ~generated

\* C11: the walker never fails on a union; the leaf of a field is optional
\* exactly when the field's type is a union with a non-null branch, and its
\* kind is that of the first non-null branch (of the first branch when every
\* branch is null).
C11_UnionRule ==
  Walked =>
    /\ ~WalkerFailed
    /\ \A r \in Range(LeafFields(SchemaOf(schema), << >>, selected_arrays)) :
         \E i \in 1..Len(flat_paths) :
           /\ flat_paths[i].path = r.path
           /\ flat_paths[i].optional = (NonNullBranches(r.declared) # << >>)
           /\ flat_paths[i].field_type = RuleKind(r.declared)

(***************************************************************************)
(* C12 - Array discovery.                                                  *)
(***************************************************************************)
\* Every array-typed field of a schema, whatever is selected, with the paths
\* of the arrays that enclose it (outermost first).
RECURSIVE AllArrays(_, _, _)
RECURSIVE AllArraysOf(_, _, _, _)
AllArrays(schema_obj, prefix, enclosing) ==
  IF schema_obj.type = "record"
  THEN AllArraysOf(schema_obj.fields, 1, prefix, enclosing)
  ELSE << >>
AllArraysOf(fields, i, prefix, enclosing) ==
  IF i > Len(fields) THEN << >>
  ELSE
    LET full_name == FullName(prefix, fields[i].name)
        t == DiscoveryType(fields[i].type)
        here ==
          IF t.type = "record" THEN AllArrays(t, full_name, enclosing)
          ELSE IF t.type = "array"
          THEN << [path |-> full_name, enclosing |-> enclosing] >>
               \o AllArrays(t.items, full_name \o ItemMarker, Append(enclosing, full_name))
          ELSE << >>
    IN here \o AllArraysOf(fields, i + 1, prefix, enclosing)

\* The arrays of the uploaded schema.
SchemaArrays == Range(AllArrays(SchemaOf(schema), << >>, << >>))

\* Every array that encloses r is selected.
Reachable(r) == \A k \in 1..Len(r.enclosing) : InList(r.enclosing[k], selected_arrays)

\* C12: the discovered arrays are exactly the array fields of the schema all
\* of whose enclosing arrays are selected; such an array is reported whether
\* or not it is selected itself, and an array with an unselected enclosing
\* array is not reported.
C12_Discovery ==
  Walked =>
    Range(array_fields) = {r.path : r \in {q \in SchemaArrays : Reachable(q)}}

\* An unselected array inside a selected one is reported while an array
\* inside it is not.
C12_Witness ==
  /\ Walked
  /\ \E r \in SchemaArrays :
       /\ r.enclosing # << >>
       /\ InList(r.path, array_fields)
       /\ ~InList(r.path, selected_arrays)
  /\ \E r \in SchemaArrays : ~Reachable(r) /\ ~InList(r.path, array_fields)

(***************************************************************************)
(* C13 - Monotonic discovery.                                              *)
(***************************************************************************)
\* The entries of a list at the positions I, in list order.
SubList(list, I) ==
  LET idx == SelectSeq([i \in 1..Len(list) |-> i], LAMBDA i : i \in I)
  IN [k \in 1..Len(idx) |-> list[idx[k]]]

\* The arrays discovered with only the entries at positions I selected.
DiscoveredWith(I) ==
  Range(find_array_fields(SchemaOf(schema), << >>, SubList(selected_arrays, I)))

\* C13: an array discovered with a part of the selected arrays is discovered
\* with all of them: selecting more arrays hides no array.
C13_Monotonic ==
  Walked =>
    \A I \in SUBSET (1..Len(selected_arrays)) : DiscoveredWith(I) \subseteq Range(array_fields)

\* Two arrays are selected and a part of the selection discovers fewer arrays.
C13_Witness ==
  /\ Walked
  /\ Len(selected_arrays) >= 2
  /\ \E I \in SUBSET (1..Len(selected_arrays)) :
       /\ DiscoveredWith(I) # {}
       /\ DiscoveredWith(I) # Range(array_fields)

(***************************************************************************)
(* C14 - Pre-seeding.                                                      *)
(***************************************************************************)
\* C14: the keys of the array_tables mapping built by build_table_hierarchy
\* are exactly the selected array paths, each once: every selected array has
\* an entry, also when no leaf is assigned to it, and there is no other key.
C14_PreSeeding ==
  (Walked /\ ~WalkerFailed) =>
    /\ Range(array_tables.keys) = SelectedSet
    /\ Cardinality(Range(array_tables.keys)) = Len(array_tables.keys)

\* A selected array has an entry with no leaf.
C14_Witness ==
  /\ Walked /\ ~WalkerFailed
  /\ \E A \in SelectedSet : DictHas(array_tables, A) /\ DictGet(array_tables, A) = << >>

(***************************************************************************)
(* C15 - Naming.                                                           *)
(***************************************************************************)
\* A non-empty string of characters in [a-z0-9_].
IsIdentifier(name) == name # << >> /\ \A k \in 1..Len(name) : name[k] \in IdentChars

\* The columns of a table that are emitted from a field path.
PathColumns(cols) == SelectSeq(cols, LAMBDA c : c.role \in {"fk", "key", "data"})

\* C15: after Generate DDL every table name part and every column name emitted
\* from a field path, the foreign-key column of every array table included,
\* is a non-empty string over [a-z0-9_], also when the root has no natural
\* key.
C15_Naming ==
  (generated /\ ~raised) =>
    /\ \A c \in Range(PathColumns(root_ddl)) : IsIdentifier(c.name)
    /\ \A A \in SelectedSet :
         /\ IsIdentifier(get_column_name(A))
         /\ HasTable(A)
         /\ \A c \in Range(PathColumns(TableOf(A))) : IsIdentifier(c.name)

(***************************************************************************)
(* C16 - Order/items scenario.                                             *)
(***************************************************************************)
\* The paths and names of the scenario.
ItemsPath == <<"i","t","e","m","s">>
OrderIdPath == <<"o","r","d","e","r","_","i","d">>
SkuPath == ItemsPath \o ItemMarker \o <<".","s","k","u">>
OrderItemsName == <<"o","r","d","e","r","_","i","t","e","m","s">>
SkuName == <<"s","k","u">>
QtyName == <<"q","t","y">>

\* DDL was generated for Order with policy {items}, the table name left at
\* its default, root key order_id, items key sku and no common fields.
OrderScenario ==
  /\ generated /\ ~raised
  /\ schema = "Order"
  /\ root_table_name = DefaultRootName(OrderSchema)
  /\ selected_arrays = <<ItemsPath>>
  /\ common_fields_list = << >>
  /\ natural_key = OrderIdPath
  /\ ItemsPath \in DOMAIN array_natural_keys
  /\ array_natural_keys[ItemsPath] = SkuPath

NameSeq(cols) == [i \in 1..Len(cols) |-> cols[i].name]
RoleSeq(cols) == [i \in 1..Len(cols) |-> cols[i].role]

\* C16: in the scenario the root table has the single column order_id and
\* the child table order_items has the columns order_id (foreign key, of the
\* type of the root's order_id), sku (natural key) and qty, in that order: a
\* leaf of the item record is named after its own field name.
C16_OrderItems ==
  OrderScenario =>
    /\ NameSeq(root_ddl) = <<OrderIdPath>>
    /\ array_ddls.keys = <<OrderItemsName>>
    /\ NameSeq(array_ddls.vals[1]) = <<OrderIdPath, SkuName, QtyName>>
    /\ RoleSeq(array_ddls.vals[1]) = <<"fk", "key", "data">>
    /\ array_ddls.vals[1][1].type = root_ddl[1].type

(***************************************************************************)
(* C17 - Idempotence.                                                      *)
(***************************************************************************)
\* What the state holds of the last run, as GenerateRun returns it.
Shown ==
  [selected_arrays |-> selected_arrays, array_fields |-> array_fields,
   changed |-> changed, raised |-> raised, flat_paths |-> flat_paths,
   root_fields |-> root_fields, array_tables |-> array_tables,
   root_ddl |-> root_ddl, array_ddls |-> array_ddls]

\* The run of one more click, on the schema, the session state and the
\* widget values of the state.
GenerateAgain(sidebar) ==
  GenerateRun(schema, selected_arrays, sidebar, root_table_name,
              common_fields_list, natural_key, array_natural_keys,
              parent_child_relations)

\* The widgets drawn from the state the run left hold the values the run
\* read.
ChoicesHeld ==
  /\ root_table_name \in RootNameChoices
  /\ common_fields_list \in CommonFieldChoices
  /\ natural_key \in NaturalKeyChoices
  /\ array_natural_keys \in ArrayKeyChoices
  /\ parent_child_relations \in RelationChoices

\* The run of a click leaves the uploaded schema and the session state as
\* they were, and does not end in st.rerun().
ClickKeeps ==
  generated' =>
    /\ schema' = schema
    /\ selected_arrays' = selected_arrays
    /\ first_load' = first_load
    /\ ~changed'

ScalarLeaf(path) ==
  \E i \in 1..Len(flat_paths) :
    flat_paths[i].path = path /\ flat_paths[i].field_type \notin {"array", "record"}

\* C18: every natural key offered for the root table is a scalar leaf under
\* no selected array, and every natural key offered for an array table is a
\* scalar leaf whose most specific selected array ancestor is that array: a
\* leaf inside a deeper selected array is not offered as the key of the
\* outer array's table.
C18_KeyCandidates ==
  (Walked /\ ~WalkerFailed) =>
    /\ \A key \in NaturalKeyChoices \ {None} :
         ScalarLeaf(key) /\ LongestSelectedOver(key) = None
    /\ \A A \in KeyedArrays : \A key \in KeyChoices(A, DictGet(array_tables, A)) :
         ScalarLeaf(key) /\ LongestSelectedOver(key) = A

(***************************************************************************)
(* C19 - No duplicate columns.                                             *)
(***************************************************************************)
\* No two entries of the sequence are equal.
Distinct(s) == \A i, j \in 1..Len(s) : s[i] = s[j] => i = j

\* C19: every array_tables entry built by build_table_hierarchy holds each
\* leaf at most once, and no emitted child table repeats a column name.
C19_NoDuplicates ==
  (Walked /\ ~WalkerFailed) =>
    /\ \A i \in 1..Len(array_tables.vals) : Distinct(PathSeq(array_tables.vals[i]))
    /\ (generated /\ ~raised) =>
         \A i \in 1..Len(array_ddls.vals) : Distinct(NameSeq(array_ddls.vals[i]))

(***************************************************************************)
(* C20 - Selection stays ancestor-closed.                                  *)
(***************************************************************************)
\* The paths of the arrays that enclose a path: what stands before each
\* "[].item" in it.
EnclosingPaths(path) ==
  {SubSeq(path, 1, p - 1) : p \in {q \in 1..Len(path) : MatchAt(path, q, ItemMarker)}}

\* C20: after every caller action and its rerun, every selected array path
\* has every enclosing array path selected too: no selected inner array is
\* left behind (to produce a child table) when an outer array is unticked.
C20_AncestorClosed ==
  ~changed => \A A \in SelectedSet : EnclosingPaths(A) \subseteq SelectedSet

(***************************************************************************)
(* C21 - Consistent nesting detection.                                     *)
(***************************************************************************)
\* The selected arrays that have a selected enclosing array.
NestedSelected == {A \in SelectedSet : SelectedOver(A) # {}}

\* The parent the relation radio is built on agrees with the parent the
\* foreign key is emitted for.
SameParent(array_path) ==
  HierarchyParent(array_path, array_tables) = ImmediateParent(array_path, selected_arrays)

\* C21: for every selected array path, the immediate parent array found by
\* array_hierarchy (splitting the path on ".") equals the one found when the
\* foreign key is emitted (the longest selected P with the path starting
\* with P + "[].item"); hence parent_child_relations records a choice for
\* exactly the selected arrays that have a selected enclosing array.
C21_ConsistentNesting ==
  (Walked /\ ~WalkerFailed) =>
    /\ \A A \in Range(array_tables.keys) : SameParent(A)
    /\ generated => DOMAIN parent_child_relations = NestedSelected

====
